---- MODULE Spec2Model ----
(***************************************************************************)
(* The ReAct loop of the LangGraph code review tool (src/langgraph_impl):  *)
(* main() builds the graph, runs the initial round and then one round per  *)
(* follow-up input; each round alternates judge_node (Reason) and          *)
(* tool_node (Act) until the Judge's last message carries no tool calls.   *)
(*                                                                         *)
(* Text is modelled as a sequence of fragments: an f-string becomes the    *)
(* tuple of its literal part and its interpolated values.                  *)
(*                                                                         *)
(* Spec is the session loop. ToolSpec runs the tools of create_tools on a  *)
(* small repository, RegistrySpec builds and reads tools_by_name, and      *)
(* SessionSpec runs two sessions side by side.                             *)
(***************************************************************************)
EXTENDS Integers, Sequences, FiniteSets, TLC

\* ---------------------------------------------------------------- bounds
\* Longest History the model explores (number of messages of the thread).
MaxHistory == 6
\* Most tool calls the Judge puts in one message.
MaxCalls == 2
\* Most rounds of one session, where the rounds are counted.
MaxRounds == 3

\* ------------------------------------------------------------ vocabulary
\* The names of the tools create_tools returns, in the order of its list.
ToolList ==
    << "get_diff", "get_changed_files", "get_branches", "read_file",
       "find_file", "quality_review", "security_review" >>

\* tools_by_name = {t.name: t for t in tools}: the keys of the lookup table.
tools_by_name == { ToolList[k] : k \in 1..Len(ToolList) }

\* Names the Judge's model is let to request: three registered tools and one
\* name that is not registered.
RequestNames == { "get_diff", "quality_review", "security_review", "run_tests" }

\* Argument mappings the Judge's model is let to send: one that fits the
\* tool's schema and carries the shared context, one that does not fit it.
RequestArgs == { "ctx", "bad_args" }

\* Texts the Judge's model is let to produce, as the chunks it streams.
JudgeTexts == { << >>, << "The ", "verdict" >> }

\* What input("\n> ") may give at the follow-up prompt: a line, as its
\* tokens, or one of the two exceptions main() catches there.
Typed(line) == [ exc |-> "none", line |-> line ]
UserInputs ==
    { Typed(<< "q" >>), Typed(<< " ", "Quit", " " >>), Typed(<< "EXIT" >>),
      Typed(<< "done" >>), Typed(<< >>), Typed(<< " " >>),
      Typed(<< "look at Foo.swift" >>), Typed(<< " ", "Done", "?", " " >>),
      [ exc |-> "EOFError", line |-> << >> ],
      [ exc |-> "KeyboardInterrupt", line |-> << >> ] }
\* user_input before the first prompt.
NotRead == [ exc |-> "unread", line |-> << >> ]

\* The environments and --provider values explored: (provider, keys set).
NoProvider == "None"
Configs ==
    { [provider |-> NoProvider, keys |-> {}],
      [provider |-> NoProvider, keys |-> {"OPENAI_API_KEY"}],
      [provider |-> "anthropic", keys |-> {"OPENAI_API_KEY"}],
      [provider |-> "OpenRouter", keys |-> {"OPENROUTER_API_KEY"}],
      [provider |-> "openai",
       keys |-> {"ANTHROPIC_API_KEY", "OPENROUTER_API_KEY"}],
      [provider |-> "mistral",
       keys |-> {"ANTHROPIC_API_KEY", "OPENAI_API_KEY", "OPENROUTER_API_KEY"}] }

NoId == 0

VARIABLES
    pc,          \* where main() / the graph stands
    provider,    \* args.provider
    env,         \* the API keys set in the process environment
    history,     \* state["messages"] of the thread held by the checkpointer
    outputs,     \* tool_node's local list while its loop runs
    dispatched,  \* log of tool_node's loop turns, in order: the call's id,
                 \* the outcome met and the exception its try block raised
    round_log,   \* of the round in progress or just ended: Len(history) and
                 \* Len(stdout) at its start, its Reason steps and the calls
                 \* they requested
    round_num,   \* main()'s round counter
    stdout,      \* what stream_response has printed, fragment by fragment
    judge_input, \* the messages the Judge's model was last invoked on
    user_input,  \* what input() last gave at the prompt
    repo,        \* the repository the tools look at: its files, its
                 \* branches and whether git can be started
    last,        \* the last tool invoked on its own: its name, its
                 \* arguments, what it returned and the files it opened
    tools,       \* the list handed to the dictionary tools_by_name
    registry,    \* tools_by_name while and after it is built
    looked,      \* what the last lookup in tools_by_name gave
    saver,       \* the threads the checkpointers hold, by session key
    session_pc,  \* where each of two sessions stands
    seen,        \* state["messages"] as each session's judge_node last got it
    actor,       \* the session that took the last step
    memo,        \* the first get_diff call made since the repository last
                 \* changed: its arguments and what it gave
    node,        \* the node graph.stream runs next, or how the stream ended
    steps,       \* the supersteps graph.stream has run in the round
    cycles,      \* the Reason-to-Act cycles completed in the round
    wanted,      \* the tool calls in the Judge's latest message
    turn         \* the rounds started

loop_vars ==
    << pc, provider, env, history, outputs, dispatched, round_log, round_num,
       stdout, user_input, judge_input >>
tool_vars == << repo, last >>
registry_vars == << tools, registry, looked >>
session_vars == << saver, session_pc, seen, actor >>
memo_vars == << memo >>
graph_vars == << node, steps, cycles, wanted, turn >>

vars ==
    << loop_vars, tool_vars, registry_vars, session_vars, memo_vars,
       graph_vars >>

\* What the steps of main()'s loop leave alone.
aside ==
    << tool_vars, registry_vars, session_vars, memo_vars, graph_vars >>

\* What a tool run on its own, a use of tools_by_name and a step of one of
\* two sessions leave alone.
beside_tools ==
    << loop_vars, registry_vars, session_vars, memo_vars, graph_vars >>
beside_registry ==
    << loop_vars, tool_vars, session_vars, memo_vars, graph_vars >>
beside_sessions ==
    << loop_vars, tool_vars, registry_vars, memo_vars, graph_vars >>

\* --------------------------------------------------------------- messages
HumanMessage(content) ==
    [ type |-> "human", id |-> NoId, content |-> content,
      tool_calls |-> << >>, name |-> "", tool_call_id |-> NoId ]

AIMessage(id, content, tool_calls) ==
    [ type |-> "ai", id |-> id, content |-> content,
      tool_calls |-> tool_calls, name |-> "", tool_call_id |-> NoId ]

ToolMessage(content, name, tool_call_id) ==
    [ type |-> "tool", id |-> NoId, content |-> content,
      tool_calls |-> << >>, name |-> name, tool_call_id |-> tool_call_id ]

SystemMessage(content) ==
    [ type |-> "system", id |-> NoId, content |-> content,
      tool_calls |-> << >>, name |-> "", tool_call_id |-> NoId ]

ToolCall(id, name, args) == [ id |-> id, name |-> name, args |-> args ]

\* ------------------------------------------------------------ get_model
\* provider.lower() on the names explored.
provider_lower(p) == IF p = "OpenRouter" THEN "openrouter" ELSE p

\* A provider lookup that falls back on any key that is set.
get_model_for_provider_fallback(p, keys) ==
    CASE provider_lower(p) = "anthropic" /\ "ANTHROPIC_API_KEY" \in keys ->
           "ChatAnthropic"
      [] provider_lower(p) = "openai" /\ "OPENAI_API_KEY" \in keys ->
           "ChatOpenAI"
      [] provider_lower(p) = "openrouter" /\ "OPENROUTER_API_KEY" \in keys ->
           "ChatOpenAI"
      [] OTHER -> IF "ANTHROPIC_API_KEY" \in keys THEN "ChatAnthropic"
                  ELSE IF keys # {} THEN "ChatOpenAI" ELSE "ValueError"

\* _get_model_for_provider: the chat model class built for a named provider,
\* or "ValueError" when its key is not set or the provider is unknown.
get_model_for_provider(p, keys) ==
    CASE provider_lower(p) = "anthropic" ->
           IF "ANTHROPIC_API_KEY" \in keys THEN "ChatAnthropic" ELSE "ValueError"
      [] provider_lower(p) = "openai" ->
           IF "OPENAI_API_KEY" \in keys THEN "ChatOpenAI" ELSE "ValueError"
      [] provider_lower(p) = "openrouter" ->
           IF "OPENROUTER_API_KEY" \in keys THEN "ChatOpenAI" ELSE "ValueError"
      [] OTHER -> "ValueError"

\* get_model: the named provider, or the first provider whose key is set.
get_model(p, keys) ==
    IF p # NoProvider THEN get_model_for_provider(p, keys)
    ELSE IF "ANTHROPIC_API_KEY" \in keys THEN "ChatAnthropic"
    ELSE IF "OPENAI_API_KEY" \in keys THEN "ChatOpenAI"
    ELSE IF "OPENROUTER_API_KEY" \in keys THEN "ChatOpenAI"
    ELSE "ValueError"

\* --------------------------------------------------------- add_messages
\* MessagesState keeps "messages" under the add_messages reducer: a message
\* without an id is given a fresh one, a message whose id is already in the
\* list replaces that entry in place, any other message is appended.
MaxOf(S) == IF S = {} THEN 0 ELSE CHOOSE x \in S : \A y \in S : y <= x

FreshId(left) == 1 + MaxOf({ left[k].id : k \in 1..Len(left) })

\* A "messages" channel without the reducer: the update replaces the list.
add_messages_overwrite(left, right) == right

RECURSIVE add_messages(_, _)
add_messages(left, right) ==
    IF right = << >> THEN left
    ELSE LET m0 == Head(right)
             m == IF m0.id = NoId THEN [m0 EXCEPT !.id = FreshId(left)] ELSE m0
             at == { k \in 1..Len(left) : left[k].id = m.id }
         IN  IF at # {}
             THEN add_messages([left EXCEPT ![CHOOSE k \in at : TRUE] = m],
                               Tail(right))
             ELSE add_messages(Append(left, m), Tail(right))

\* ------------------------------------------------------------- the tools
\* ======================================================= repository tools
\* Text is a sequence of tokens. A name that a prefix test has to look into
\* is cut where the test looks; every other name is one token.
Tok(name) ==
    CASE name = "repo-evil" -> << "repo", "-evil" >>
      [] name = ".github" -> << ".", "github" >>
      [] name = ".git" -> << ".", "git" >>
      [] name = "--output=pwned" -> << "--output=", "pwned" >>
      [] OTHER -> << name >>

\* s.startswith(prefix)
StartsWith(s, prefix) ==
    /\ Len(prefix) <= Len(s)
    /\ SubSeq(s, 1, Len(prefix)) = prefix

\* sep.join(parts), each part cut into its tokens.
RECURSIVE Join(_, _)
Join(sep, parts) ==
    IF parts = << >> THEN << >>
    ELSE IF Len(parts) = 1 THEN Tok(parts[1])
    ELSE Tok(parts[1]) \o << sep >> \o Join(sep, Tail(parts))

\* s.strip(): the blank tokens at both ends are dropped.
Blank == { "", " ", "\n" }
RECURSIVE lstrip(_)
lstrip(s) == IF s # << >> /\ Head(s) \in Blank THEN lstrip(Tail(s)) ELSE s
RECURSIVE rstrip(_)
rstrip(s) ==
    IF s # << >> /\ s[Len(s)] \in Blank
    THEN rstrip(SubSeq(s, 1, Len(s) - 1)) ELSE s
strip(s) == rstrip(lstrip(s))

\* ------------------------------------------------------------ file system
\* A path is the sequence of its components; an absolute path given as an
\* argument starts with the component "/".
File(path, size, data) ==
    [ path |-> path, kind |-> "file", size |-> size, data |-> data,
      target |-> << >> ]
Dir(path) ==
    [ path |-> path, kind |-> "dir", size |-> 0, data |-> << >>,
      target |-> << >> ]
Link(path, target) ==
    [ path |-> path, kind |-> "link", size |-> 0, data |-> << >>,
      target |-> target ]

\* real_repo_path = os.path.realpath(repo_path)
real_repo_path == << "work", "repo" >>

MAX_FILE_SIZE == 50 * 1024

SKIP_DIRS ==
    { ".git", "node_modules", "__pycache__", ".build", ".venv", "venv",
      ".tox", "Pods", "DerivedData" }

\* The files the tools are run on: a checkout at /work/repo with files at
\* and around the size ceiling, directories find_file has to skip, links
\* that leave the checkout or stay in it, and a sibling directory whose name
\* starts with the checkout's name.
Tree ==
    LET r == real_repo_path
    IN  { Dir(<< "work" >>), Dir(r),
          File(r \o << "AGENTS.md" >>, 12, << "be kind" >>),
          File(r \o << "exact.bin" >>, MAX_FILE_SIZE, << "0101" >>),
          File(r \o << "big.bin" >>, MAX_FILE_SIZE + 1, << "01010" >>),
          Dir(r \o << "Sources" >>),
          File(r \o << "Sources", "AGENTS.md" >>, 30, << "be strict" >>),
          File(r \o << "Sources", "Foo.swift" >>, 40, << "let x", "0xFF" >>),
          Dir(r \o << "Sources", "CLAUDE.md" >>),
          Dir(r \o << "Sources", "venv" >>),
          File(r \o << "Sources", "venv", "Foo.swift" >>, 5, << "venv" >>),
          Dir(r \o << ".github" >>),
          File(r \o << ".github", "AGENTS.md" >>, 7, << "ci" >>),
          Dir(r \o << "node_modules" >>),
          Dir(r \o << "node_modules", "pkg" >>),
          File(r \o << "node_modules", "pkg", "AGENTS.md" >>, 9, << "dep" >>),
          Link(r \o << "passwd" >>, << "etc", "passwd" >>),
          Link(r \o << "docs" >>, r \o << "Sources" >>),
          Dir(<< "work", "repo-evil" >>),
          File(<< "work", "repo-evil", "secret" >>, 6, << "secret" >>),
          Dir(<< "etc" >>),
          File(<< "etc", "passwd" >>, 20, << "root:x:0:0" >>) }

Known(files, path) == \E e \in files : e.path = path
Entry(files, path) == CHOOSE e \in files : e.path = path
KindOf(files, path) ==
    IF Known(files, path) THEN Entry(files, path).kind ELSE "none"

\* os.path.join(real_repo_path, file_path): an absolute second argument
\* replaces the first.
os_path_join(root, file_path) ==
    IF file_path # << >> /\ Head(file_path) = "/"
    THEN Tail(file_path) ELSE root \o file_path

\* os.path.realpath: "." and ".." are folded and every symbolic link met on
\* the way is replaced by what it points to.
RECURSIVE realpath_from(_, _, _)
realpath_from(files, done, rest) ==
    IF rest = << >> THEN done
    ELSE LET c == Head(rest)
             q == Append(done, c)
         IN  IF c \in { ".", "" } THEN realpath_from(files, done, Tail(rest))
             ELSE IF c = ".."
             THEN realpath_from(files,
                      IF done = << >> THEN done
                      ELSE SubSeq(done, 1, Len(done) - 1), Tail(rest))
             ELSE IF KindOf(files, q) = "link"
             THEN realpath_from(files, Entry(files, q).target, Tail(rest))
             ELSE realpath_from(files, q, Tail(rest))
realpath(files, path) == realpath_from(files, << >>, path)

\* The text of an absolute path, and of a path as the caller wrote it.
PathStr(path) == << "/" >> \o Join("/", path)
ArgStr(file_path) ==
    IF file_path # << >> /\ Head(file_path) = "/"
    THEN PathStr(Tail(file_path)) ELSE Join("/", file_path)

\* os.path.isfile / os.path.getsize of a canonical path.
isfile(files, path) == KindOf(files, path) = "file"
getsize(files, path) == Entry(files, path).size

\* open(resolved, "r", encoding="utf-8", errors="replace").read(): a byte
\* sequence that is not UTF-8 comes back as the replacement character.
decode(data) ==
    [ i \in 1..Len(data) |-> IF data[i] = "0xFF" THEN "U+FFFD" ELSE data[i] ]

\* What a file tool did: the text it returned and the files it opened.
Done(value, opened) == [ raised |-> FALSE, value |-> value, opened |-> opened ]

\* A containment test on the text of the root without the separator.
inside_repository_no_sep(resolved) ==
    StartsWith(PathStr(resolved), PathStr(real_repo_path))

\* resolved.startswith(real_repo_path + os.sep) or resolved == real_repo_path
inside_repository(resolved) ==
    \/ StartsWith(PathStr(resolved), PathStr(real_repo_path) \o << "/" >>)
    \/ resolved = real_repo_path

\* A size test that also turns away a file of exactly the ceiling.
too_large_at_ceiling(size) == size >= MAX_FILE_SIZE

\* size > MAX_FILE_SIZE
too_large(size) == size > MAX_FILE_SIZE

\* read_file: the path is resolved under the root; a path that leaves the
\* root, a path that is no regular file and a file over the ceiling each
\* give their error text before anything is opened. The files here can be
\* read: open() and read() succeed, so the except clause stays unused.
read_file(files, file_path) ==
    LET resolved == realpath(files, os_path_join(real_repo_path, file_path))
    IN  IF ~inside_repository(resolved)
        THEN Done(<< "Error: path '" >> \o ArgStr(file_path)
                     \o << "' is outside the repository." >>, {})
        ELSE IF ~isfile(files, resolved)
        THEN Done(<< "Error: file '" >> \o ArgStr(file_path)
                     \o << "' not found." >>, {})
        ELSE IF too_large(getsize(files, resolved))
        THEN Done(<< "Error: file '" >> \o ArgStr(file_path)
                     \o << "' is too large (",
                           ToString(getsize(files, resolved)), " bytes, max ",
                           ToString(MAX_FILE_SIZE), ")." >>, {})
        ELSE Done(decode(Entry(files, resolved).data), { resolved })

\* ---- find_file
\* The entries of one directory, in the order the listing gives them (an
\* order the file system chooses).
Children(files, dirpath) ==
    { e \in files : /\ Len(e.path) = Len(dirpath) + 1
                    /\ SubSeq(e.path, 1, Len(dirpath)) = dirpath }
RECURSIVE Listing(_)
Listing(entries) ==
    IF entries = {} THEN << >>
    ELSE LET e == CHOOSE x \in entries : TRUE
         IN  << e >> \o Listing(entries \ { e })

BaseName(e) == e.path[Len(e.path)]

\* os.walk puts an entry in dirnames when it is a directory or a link to
\* one, and in filenames otherwise.
IsDirEntry(files, e) ==
    \/ e.kind = "dir"
    \/ e.kind = "link" /\ KindOf(files, realpath(files, e.path)) = "dir"

\* A pruning that knows the skip list only.
keep_dir_skip_list_only(d) == d \notin SKIP_DIRS

\* d not in SKIP_DIRS and not d.startswith(".")
keep_dir(d) == d \notin SKIP_DIRS /\ ~StartsWith(Tok(d), << "." >>)

\* os.path.relpath(full, real_repo_path) of a path under the root.
relpath(path) == SubSeq(path, Len(real_repo_path) + 1, Len(path))

\* The loop over os.walk(real_repo_path): the matches of dirpath, then those
\* of the directories kept in dirnames; os.walk does not descend into a
\* link.
RECURSIVE walk(_, _, _)
RECURSIVE walk_each(_, _, _)
walk(files, dirpath, filename) ==
    LET listing == Listing(Children(files, dirpath))
        dirnames == SelectSeq(listing,
                        LAMBDA e : IsDirEntry(files, e) /\ keep_dir(BaseName(e)))
        filenames == SelectSeq(listing, LAMBDA e : ~IsDirEntry(files, e))
        here == IF \E i \in 1..Len(filenames) : BaseName(filenames[i]) = filename
                THEN << relpath(Append(dirpath, filename)) >> ELSE << >>
    IN  here \o walk_each(files,
                    SelectSeq(dirnames, LAMBDA e : e.kind = "dir"), filename)
walk_each(files, dirs, filename) ==
    IF dirs = << >> THEN << >>
    ELSE walk(files, Head(dirs).path, filename)
         \o walk_each(files, Tail(dirs), filename)

\* "\n".join(matches)
RECURSIVE JoinLines(_)
JoinLines(matches) ==
    IF matches = << >> THEN << >>
    ELSE IF Len(matches) = 1 THEN Join("/", matches[1])
    ELSE Join("/", matches[1]) \o << "\n" >> \o JoinLines(Tail(matches))

find_file(files, filename) ==
    LET matches == walk(files, real_repo_path, filename)
    IN  IF matches = << >>
        THEN Done(<< "No files named '", filename,
                     "' found in the repository." >>, {})
        ELSE Done(JoinLines(matches), {})

\* ------------------------------------------------------------------- git
\* What subprocess.run(..., check=True) gives back or raises.
Completed(out) == [ exc |-> "none", stdout |-> out, stderr |-> << >> ]
ProcessError(exc, err) == [ exc |-> exc, stdout |-> << >>, stderr |-> err ]

\* The repository: the files on disk, the branches in the order git lists
\* them, the commits each branch holds, and whether git can be started.
Repository(git_found) ==
    [ files |-> Tree,
      branches |-> << "feature", "main", "release" >>,
      commits |-> [ b \in { "feature", "main", "release" } |->
                      IF b = "feature" THEN { 1, 2 } ELSE { 1 } ],
      git |-> git_found ]

BranchSet(r) == { r.branches[i] : i \in 1..Len(r.branches) }

\* The file "git diff --output=<file>" writes: <file> is all that follows
\* the "=" in the argument f"{target_branch}...{source_branch}".
OutputName(source_branch) ==
    CASE source_branch = "feature" -> "pwned...feature"
      [] source_branch = "main" -> "pwned...main"
      [] source_branch = "release" -> "pwned...release"
      [] source_branch = "nope" -> "pwned...nope"
      [] OTHER -> "pwned...--output=pwned"

\* git diff [--name-only] <target>...<source>, run in the repository: the
\* process result and the files on disk afterwards. The three-dot range
\* shows the commits of source that target does not hold (here commit 2,
\* which changes Sources/Foo.swift); an argument that starts with
\* "--output=" is read by git as that option, not as a range; a name that
\* is no branch makes git exit with an error.
git_diff(r, name_only, target_branch, source_branch) ==
    LET range == Tok(target_branch) \o << "..." >> \o Tok(source_branch)
    IN  IF ~r.git
        THEN [ run |-> ProcessError("FileNotFoundError", << >>),
               files |-> r.files ]
        ELSE IF StartsWith(range, << "--output=" >>)
        THEN [ run |-> Completed(<< >>),
               files |-> r.files \cup
                   { File(real_repo_path \o << OutputName(source_branch) >>,
                          0, << >>) } ]
        ELSE IF { target_branch, source_branch } \subseteq BranchSet(r)
        THEN [ run |-> Completed(
                   IF r.commits[source_branch] \subseteq r.commits[target_branch]
                   THEN << >>
                   ELSE IF name_only THEN << "Sources/Foo.swift", "\n" >>
                   ELSE << "diff --git a/Sources/Foo.swift b/Sources/Foo.swift",
                           "\n" >>),
               files |-> r.files ]
        ELSE [ run |-> ProcessError("CalledProcessError",
                          << "fatal: bad revision '" >> \o range \o << "'" >>),
               files |-> r.files ]

\* git branch -a --format=%(refname:short)
RECURSIVE Lines(_)
Lines(names) ==
    IF names = << >> THEN << >>
    ELSE << Head(names), "\n" >> \o Lines(Tail(names))
git_branch(r) ==
    IF ~r.git
    THEN [ run |-> ProcessError("FileNotFoundError", << >>), files |-> r.files ]
    ELSE [ run |-> Completed(Lines(r.branches)), files |-> r.files ]

\* The process results the Judge's get_diff calls meet in the loop.
subprocess_run(oc) ==
    CASE oc = "stdout" -> Completed(<< "diff --git a/Foo.swift b/Foo.swift" >>)
      [] oc = "empty" -> Completed(<< >>)
      [] oc = "CalledProcessError" -> ProcessError(oc, << "fatal: bad revision" >>)
      [] OTHER -> ProcessError(oc, << >>)

\* ------------------------------------------------------------- tool bodies
\* A call either returns a value or raises an exception.
Return(value) == [ raised |-> FALSE, value |-> value ]
Raise(exc) == [ raised |-> TRUE, value |-> exc ]

\* The exception classes met here; all of them derive from Exception, so an
\* "except Exception" clause catches each of them.
ExceptionSubclasses ==
    { "KeyError", "ValidationError", "FileNotFoundError", "APIError", "ValueError" }

\* What the world outside the process can answer to a tool body: git's exit
\* and output for get_diff, the outcome of the specialist's model call for
\* the two reviews.
Outcomes(name) ==
    CASE name = "get_diff" ->
           { "stdout", "empty", "CalledProcessError", "FileNotFoundError" }
      [] name \in { "quality_review", "security_review" } ->
           { "report", "APIError" }
      [] OTHER -> { "none" }

\* A get_diff that answers from what the call before it left behind.
get_diff_stateful(run) ==
    IF last.tool = "get_changed_files" /\ run.exc = "none"
    THEN Return(<< "No differences found between branches." >>)
    ELSE IF run.exc = "CalledProcessError"
    THEN Return(<< "Error getting diff: " >> \o run.stderr)
    ELSE IF run.exc # "none" THEN Raise(run.exc)
    ELSE IF strip(run.stdout) = << >>
    THEN Return(<< "No differences found between branches." >>)
    ELSE Return(run.stdout)

\* A get_diff without its except clause.
get_diff_uncaught(run) ==
    IF run.exc # "none" THEN Raise(run.exc)
    ELSE IF strip(run.stdout) = << >>
    THEN Return(<< "No differences found between branches." >>)
    ELSE Return(run.stdout)

\* get_diff: git's output, the no-difference text when it is blank, an error
\* text for a failed git (except CalledProcessError); any other exception of
\* subprocess.run is raised.
get_diff(run) ==
    IF run.exc = "CalledProcessError"
    THEN Return(<< "Error getting diff: " >> \o run.stderr)
    ELSE IF run.exc # "none" THEN Raise(run.exc)
    ELSE IF strip(run.stdout) = << >>
    THEN Return(<< "No differences found between branches." >>)
    ELSE Return(run.stdout)

\* get_changed_files: result.stdout or "No files changed."
get_changed_files(run) ==
    IF run.exc = "CalledProcessError"
    THEN Return(<< "Error getting changed files: " >> \o run.stderr)
    ELSE IF run.exc # "none" THEN Raise(run.exc)
    ELSE IF run.stdout = << >> THEN Return(<< "No files changed." >>)
    ELSE Return(run.stdout)

\* get_branches: git's output as it is.
get_branches(run) ==
    IF run.exc = "CalledProcessError"
    THEN Return(<< "Error listing branches: " >> \o run.stderr)
    ELSE IF run.exc # "none" THEN Raise(run.exc)
    ELSE Return(run.stdout)

\* A review body without its try / except.
review_uncaught(label, system_prompt, context, oc, p, keys) ==
    IF get_model(p, keys) = "ValueError" THEN Raise("ValueError")
    ELSE IF oc = "report"
    THEN Return(<< "report", system_prompt, context >>)
    ELSE Raise(oc)

\* The body shared by quality_review and security_review: get_model, then
\* one model call with the role prompt and the context as its only input;
\* except Exception turns a failure of either into a text.
review(label, system_prompt, context, oc, p, keys) ==
    LET r == IF get_model(p, keys) = "ValueError" THEN Raise("ValueError")
             ELSE IF oc = "report"
             THEN Return(<< "report", system_prompt, context >>)
             ELSE Raise(oc)
    IN  IF r.raised /\ r.value \in ExceptionSubclasses
        THEN Return(<< "Error during ", label, " review: ", r.value >>)
        ELSE r

\* A specialist that calls its model a second time when the first call
\* failed.
review_model_calls_retry(system_prompt, context, oc, p, keys) ==
    IF get_model(p, keys) = "ValueError" THEN << >>
    ELSE LET call == [ messages |-> << [ role |-> "system",
                                          content |-> system_prompt ],
                                        [ role |-> "human",
                                          content |-> context ] >>,
                       bound_tools |-> {} ]
         IN  IF oc = "report" THEN << call >> ELSE << call, call >>

\* The model calls one review body issues: reviewer_model.invoke on the
\* role's SystemMessage and a HumanMessage of the context, by a model that
\* no tools were bound to; none when get_model raised before it.
review_model_calls(system_prompt, context, oc, p, keys) ==
    IF get_model(p, keys) = "ValueError" THEN << >>
    ELSE << [ messages |-> << [ role |-> "system", content |-> system_prompt ],
                              [ role |-> "human", content |-> context ] >>,
              bound_tools |-> {} ] >>

ReviewPrompt(name) ==
    IF name = "quality_review" THEN "QUALITY_REVIEWER_SYSTEM_PROMPT"
    ELSE "SECURITY_REVIEWER_SYSTEM_PROMPT"

quality_review(context, oc, p, keys) ==
    review("quality", "QUALITY_REVIEWER_SYSTEM_PROMPT", context, oc, p, keys)

security_review(context, oc, p, keys) ==
    review("security", "SECURITY_REVIEWER_SYSTEM_PROMPT", context, oc, p, keys)

\* tool_func.invoke(args): the arguments are validated against the tool's
\* schema, then the body runs.
tool_invoke(name, args, oc, p, keys) ==
    IF args = "bad_args" THEN Raise("ValidationError")
    ELSE CASE name = "get_diff" -> get_diff(subprocess_run(oc))
           [] name = "quality_review" -> quality_review(args, oc, p, keys)
           [] name = "security_review" -> security_review(args, oc, p, keys)
           [] OTHER -> Return(<< "output of ", name >>)

\* The try block of tool_node's loop: the lookup in tools_by_name (a
\* KeyError for a name that is not a key), then the invocation.
attempt(tool_call, oc, p, keys) ==
    IF tool_call.name \notin tools_by_name
    THEN Raise("KeyError")
    ELSE tool_invoke(tool_call.name, tool_call.args, oc, p, keys)

\* f"Error executing tool '{name}': {e}"
ErrorText(name, e) == << "Error executing tool '", name, "': ", e >>

\* A loop turn whose lookup in tools_by_name stands before the try block.
execute_lookup_before_try(tool_call, oc, p, keys) ==
    LET r == attempt(tool_call, oc, p, keys)
    IN  IF tool_call.name \notin tools_by_name THEN Raise("KeyError")
        ELSE Return(ToolMessage(IF r.raised THEN ErrorText(tool_call.name, r.value)
                                ELSE r.value,
                                tool_call.name, tool_call.id))

\* A loop turn whose except clause names KeyError alone.
execute_except_KeyError(tool_call, oc, p, keys) ==
    LET r == attempt(tool_call, oc, p, keys)
    IN  IF ~r.raised
        THEN Return(ToolMessage(r.value, tool_call.name, tool_call.id))
        ELSE IF r.value = "KeyError"
        THEN Return(ToolMessage(ErrorText(tool_call.name, r.value),
                                tool_call.name, tool_call.id))
        ELSE r

\* A loop turn that builds its ToolMessage without the call's id.
execute_uncorrelated(tool_call, oc, p, keys) ==
    LET r == attempt(tool_call, oc, p, keys)
    IN  Return(ToolMessage(IF r.raised THEN ErrorText(tool_call.name, r.value)
                           ELSE r.value,
                           tool_call.name, NoId))

\* One turn of tool_node's loop: the try block, except Exception turning
\* what it raises into the error text, and the ToolMessage that carries the
\* call's name and id. An exception the clause does not catch leaves
\* tool_node.
execute(tool_call, oc, p, keys) ==
    LET r == attempt(tool_call, oc, p, keys)
    IN  IF ~r.raised
        THEN Return(ToolMessage(r.value, tool_call.name, tool_call.id))
        ELSE IF r.value \in ExceptionSubclasses
        THEN Return(ToolMessage(ErrorText(tool_call.name, r.value),
                                tool_call.name, tool_call.id))
        ELSE r

\* The outcomes that matter for a call: those of its body when the body is
\* reached, a single placeholder when the lookup or the validation stops it.
Answers(tool_call) ==
    IF tool_call.name \in tools_by_name /\ tool_call.args # "bad_args"
    THEN Outcomes(tool_call.name)
    ELSE { "not run" }

\* ------------------------------------------------------- the graph edges
LastMessage(messages) == messages[Len(messages)]

\* A should_continue that tests the message list instead of the last
\* message's tool calls.
should_continue_any_message(messages) ==
    IF messages # << >> THEN "tools" ELSE "END"

\* A should_continue that lets a round end only once both specialists have
\* been asked.
should_continue_after_reviews(messages) ==
    IF LastMessage(messages).tool_calls # << >> THEN "tools"
    ELSE IF \A name \in { "quality_review", "security_review" } :
              \E k \in 1..Len(messages) :
                \E j \in 1..Len(messages[k].tool_calls) :
                  messages[k].tool_calls[j].name = name
    THEN "END"
    ELSE "tools"

\* should_continue: "tools" when the last message has tool calls, else END.
should_continue(messages) ==
    IF LastMessage(messages).tool_calls # << >> THEN "tools" ELSE "END"

\* A tool_node that loops over the tool calls of every message of the thread.
RECURSIVE CallsOfAll(_)
CallsOfAll(messages) ==
    IF messages = << >> THEN << >>
    ELSE Head(messages).tool_calls \o CallsOfAll(Tail(messages))

\* The calls tool_node loops over: those of the last message.
PendingCalls(messages) == LastMessage(messages).tool_calls

\* The tool calls a model response may carry: up to `most` requests, each
\* with a fresh id (the provider numbers its calls), any requested name and
\* any argument mapping.
CallSeqs(first_id, most) ==
    UNION { { [ k \in 1..n |-> ToolCall(first_id + k - 1, names[k], args[k]) ] :
                names \in [1..n -> RequestNames], args \in [1..n -> RequestArgs] } :
            n \in 0..most }

\* The most calls the next response may carry for the thread to stay within
\* MaxHistory with their results and the Reason step that follows them.
Room(messages) ==
    LET free == MaxHistory - Len(messages) - 2
    IN  IF free < 0 THEN 0 ELSE IF free > MaxCalls THEN MaxCalls ELSE free

\* The next unused tool call id of the thread.
NextCallId(messages) ==
    1 + MaxOf(UNION { { messages[k].tool_calls[j].id :
                          j \in 1..Len(messages[k].tool_calls) } :
                      k \in 1..Len(messages) })

\* A stream_response that prints the first chunk of a response only.
Printed_first_chunk(content) ==
    IF content = << >> THEN << >> ELSE << content[1] >>

\* The chunks stream_response prints for one Judge response: the text
\* chunks that are not empty.
Printed(content) == SelectSeq(content, LAMBDA c : c # "")

\* ------------------------------------------- graph.stream, "messages" mode
\* What the stream hands stream_response: a message or a piece of one, and
\* the node it came from.
StreamChunk(langgraph_node, type, content) ==
    [ langgraph_node |-> langgraph_node, type |-> type, content |-> content ]

RECURSIVE Flatten(_)
Flatten(seqs) ==
    IF seqs = << >> THEN << >> ELSE Head(seqs) \o Flatten(Tail(seqs))

\* The Judge's response as it streams out of the "judge" node.
JudgeChunks(content) ==
    [ i \in 1..Len(content) |->
        StreamChunk("judge", "AIMessageChunk", content[i]) ]

\* A specialist's report as its model streams it, inside the "tools" node.
ReviewerChunks(tool_call, message) ==
    IF /\ tool_call.name \in { "quality_review", "security_review" }
       /\ message.content[1] = "report"
    THEN [ i \in 1..Len(message.content) |->
             StreamChunk("tools", "AIMessageChunk", message.content[i]) ]
    ELSE << >>

\* The ToolMessages the "tools" node returns.
ToolMessageChunks(messages) ==
    Flatten([ k \in 1..Len(messages) |->
                [ i \in 1..Len(messages[k].content) |->
                    StreamChunk("tools", "ToolMessage",
                                messages[k].content[i]) ] ])

\* A stream_response without its test of the node a chunk came from.
Shown_from_any_node(chunks) ==
    SelectSeq(chunks, LAMBDA c : c.type = "AIMessageChunk")

\* The chunks stream_response does not skip: those of the "judge" node that
\* are AIMessageChunks.
Shown(chunks) ==
    SelectSeq(chunks, LAMBDA c : /\ c.langgraph_node = "judge"
                                 /\ c.type = "AIMessageChunk")

\* What stream_response prints of the chunks of one step.
stream_prints(chunks) ==
    Printed([ i \in 1..Len(Shown(chunks)) |-> Shown(chunks)[i].content ])

\* The messages judge_node invokes the model on, without the earlier
\* rounds.
judge_messages_latest(messages) ==
    << SystemMessage(<< "JUDGE_SYSTEM_PROMPT" >>) >>
      \o << messages[Len(messages)] >>

\* judge_node: [SystemMessage(content=JUDGE_SYSTEM_PROMPT)] +
\* list(state["messages"]).
judge_messages(messages) ==
    << SystemMessage(<< "JUDGE_SYSTEM_PROMPT" >>) >> \o messages

\* str.lower() of a text, token by token.
lower(s) ==
    [ i \in 1..Len(s) |->
        CASE s[i] = "Quit" -> "quit"
          [] s[i] = "EXIT" -> "exit"
          [] s[i] = "Done" -> "done"
          [] s[i] = "look at Foo.swift" -> "look at foo.swift"
          [] OTHER -> s[i] ]

\* The words that end the session, without the empty line.
QuitWords_without_empty == { << "q" >>, << "quit" >>, << "exit" >>, << "done" >> }

\* ("q", "quit", "exit", "done", "")
QuitWords == { << "q" >>, << "quit" >>, << "exit" >>, << "done" >>, << >> }

\* ---------------------------------------------------------------- Init
LoopInit ==
    /\ pc = "start"
    /\ \E c \in Configs : provider = c.provider /\ env = c.keys
    /\ history = << >>
    /\ outputs = << >>
    /\ dispatched = << >>
    /\ round_log = [ start |-> 0, printed |-> 0, reasons |-> 0, requests |-> 0 ]
    /\ round_num = 1
    /\ stdout = << >>
    /\ user_input = NotRead
    /\ judge_input = << >>

\* ------------------------------------------------------------- actions
\* main() -> build_graph: create_tools, then get_model for the Judge; a
\* ValueError of get_model leaves main() before any round.
BuildGraph ==
    /\ pc = "start"
    /\ pc' = IF get_model(provider, env) = "ValueError"
             THEN "config_error" ELSE "ready"
    /\ UNCHANGED << aside, judge_input >>
    /\ UNCHANGED << user_input, provider, env, history, outputs, dispatched, round_log, round_num,
                    stdout >>

\* stream_response(graph, [HumanMessage(prompt)], config) of round 1: the
\* input is added to the thread and the graph enters at "judge".
InitialRound ==
    /\ pc = "ready"
    /\ history' = add_messages(history, << HumanMessage(<< "Please review" >>) >>)
    /\ pc' = "judge"
    /\ round_log' = [ start |-> Len(history), printed |-> Len(stdout),
                       reasons |-> 0, requests |-> 0 ]
    /\ UNCHANGED << aside, judge_input >>
    /\ UNCHANGED << user_input, provider, env, outputs, dispatched, round_num, stdout >>

\* judge_node, the model answering: the response is added to the thread,
\* its text chunks are printed as they stream, and should_continue picks
\* the next node; at END stream_response prints the final newline and
\* main() moves to the prompt.
JudgeResponds ==
    /\ pc = "judge"
    /\ Len(history) < MaxHistory
    /\ \E content \in JudgeTexts,
          calls \in CallSeqs(NextCallId(history), Room(history)) :
         /\ history' = add_messages(history,
                << AIMessage(FreshId(history), content, calls) >>)
         /\ IF should_continue(history') = "tools"
            THEN /\ pc' = "tools"
                 /\ stdout' = stdout \o stream_prints(JudgeChunks(content))
                 /\ round_num' = round_num
            ELSE /\ pc' = "prompt"
                 /\ stdout' = stdout \o stream_prints(JudgeChunks(content))
                                     \o << "\n" >>
                 /\ round_num' = round_num + 1
         /\ round_log' = [ round_log EXCEPT !.reasons = @ + 1,
                                             !.requests = @ + Len(calls) ]
    /\ judge_input' = judge_messages(history)
    /\ outputs' = << >>
    /\ UNCHANGED aside
    /\ UNCHANGED << user_input, provider, env, dispatched >>

\* judge_node, the model call raising: nothing catches the exception in
\* judge_node, stream_response or main(), so the process ends.
JudgeFails ==
    /\ pc = "judge"
    /\ pc' = "crashed"
    /\ judge_input' = judge_messages(history)
    /\ UNCHANGED aside
    /\ UNCHANGED << user_input, provider, env, history, outputs, dispatched, round_log, round_num,
                    stdout >>

\* tool_node, one turn of its loop: the next call of the last message. An
\* exception that execute lets through ends the process like JudgeFails.
ToolStep ==
    /\ pc = "tools"
    /\ Len(outputs) < Len(PendingCalls(history))
    /\ LET tool_call == PendingCalls(history)[Len(outputs) + 1]
       IN  \E oc \in Answers(tool_call) :
             LET r == attempt(tool_call, oc, provider, env)
                 res == execute(tool_call, oc, provider, env)
             IN  /\ dispatched' = Append(dispatched,
                        [ id |-> tool_call.id, oc |-> oc,
                          raised |-> IF r.raised THEN r.value ELSE "none" ])
                 /\ IF res.raised
                    THEN /\ pc' = "crashed"
                         /\ outputs' = outputs
                         /\ stdout' = stdout
                    ELSE /\ pc' = pc
                         /\ outputs' = Append(outputs, res.value)
                         /\ stdout' = stdout \o
                              stream_prints(ReviewerChunks(tool_call, res.value))
    /\ UNCHANGED << aside, judge_input >>
    /\ UNCHANGED << user_input, provider, env, history, round_log, round_num >>

\* A tool_node whose return statement stands inside the loop.
ToolReturn_inside_loop ==
    /\ pc = "tools"
    /\ Len(outputs) >= 1 \/ PendingCalls(history) = << >>
    /\ history' = add_messages(history, outputs)
    /\ outputs' = << >>
    /\ pc' = "judge"
    /\ UNCHANGED << aside, judge_input >>
    /\ UNCHANGED << user_input, provider, env, dispatched, round_log, round_num, stdout >>

\* A tool_node that assigns each ToolMessage to outputs instead of
\* appending it, so that it returns the last one alone.
ToolReturn_last_only ==
    /\ pc = "tools"
    /\ Len(outputs) = Len(PendingCalls(history))
    /\ history' = add_messages(history,
           IF outputs = << >> THEN << >> ELSE << outputs[Len(outputs)] >>)
    /\ outputs' = << >>
    /\ pc' = "judge"
    /\ UNCHANGED << aside, judge_input >>
    /\ UNCHANGED << user_input, provider, env, dispatched, round_log, round_num, stdout >>

\* A tool_node that returns its outputs last first.
ToolReturn_reversed ==
    /\ pc = "tools"
    /\ Len(outputs) = Len(PendingCalls(history))
    /\ history' = add_messages(history,
           [ k \in 1..Len(outputs) |-> outputs[Len(outputs) + 1 - k] ])
    /\ stdout' = stdout
    /\ outputs' = << >>
    /\ pc' = "judge"
    /\ UNCHANGED << aside, judge_input >>
    /\ UNCHANGED << user_input, provider, env, dispatched, round_log, round_num >>

\* tool_node returning {"messages": outputs} once its loop is over; the
\* edge tools -> judge.
ToolReturn ==
    /\ pc = "tools"
    /\ Len(outputs) = Len(PendingCalls(history))
    /\ history' = add_messages(history, outputs)
    /\ stdout' = stdout \o stream_prints(ToolMessageChunks(outputs))
    /\ outputs' = << >>
    /\ pc' = "judge"
    /\ UNCHANGED << aside, judge_input >>
    /\ UNCHANGED << user_input, provider, env, dispatched, round_log, round_num >>

\* main()'s prompt, the user ending the session: end of input, a keyboard
\* interrupt, a quit word or an empty line.
EndSession ==
    /\ pc = "prompt"
    /\ \E typed \in UserInputs :
         /\ \/ typed.exc \in { "EOFError", "KeyboardInterrupt" }
            \/ lower(strip(typed.line)) \in QuitWords
         /\ user_input' = typed
    /\ pc' = "done"
    /\ UNCHANGED << aside, judge_input >>
    /\ UNCHANGED << provider, env, history, outputs, dispatched, round_log, round_num,
                    stdout >>

\* main()'s prompt, any other input: one follow-up round on the same thread,
\* with the stripped line as the user's message.
FollowUpRound ==
    /\ pc = "prompt"
    /\ Len(history) + 2 <= MaxHistory
    /\ \E typed \in UserInputs :
         /\ typed.exc = "none"
         /\ lower(strip(typed.line)) \notin QuitWords
         /\ user_input' = typed
         /\ history' = add_messages(history,
                << HumanMessage(strip(typed.line)) >>)
    /\ pc' = "judge"
    /\ round_log' = [ start |-> Len(history), printed |-> Len(stdout),
                       reasons |-> 0, requests |-> 0 ]
    /\ UNCHANGED << aside, judge_input >>
    /\ UNCHANGED << provider, env, outputs, dispatched, round_num, stdout >>

Next ==
    \/ BuildGraph
    \/ InitialRound
    \/ JudgeResponds
    \/ JudgeFails
    \/ ToolStep
    \/ ToolReturn
    \/ EndSession
    \/ FollowUpRound

\* ============================================== the tools run on their own
\* The arguments the tools are run with.
FilePaths ==
    { << >>, << "AGENTS.md" >>, << "exact.bin" >>, << "big.bin" >>,
      << "Sources", "Foo.swift" >>, << "Sources", "..", "AGENTS.md" >>,
      << "Sources", "CLAUDE.md" >>, << "missing.txt" >>,
      << "docs", "Foo.swift" >>, << "passwd" >>, << ".." >>,
      << "..", "repo-evil", "secret" >>, << "..", "repo", "AGENTS.md" >>,
      << "/", "etc", "passwd" >>, << "/", "work", "repo", "AGENTS.md" >> }
FileNames ==
    { "AGENTS.md", "Foo.swift", "CLAUDE.md", "passwd", "secret", "nope.txt" }
BranchArgs == { "feature", "main", "release", "nope", "--output=pwned" }

\* What the Judge may pass a specialist as its context.
ReviewContexts == { "ctx", "the diff of feature against main" }

NoCall ==
    [ tool |-> "none", args |-> << >>, raised |-> FALSE, value |-> << >>,
      opened |-> {}, model_calls |-> << >> ]
Called(tool, args, r, opened) ==
    [ tool |-> tool, args |-> args, raised |-> r.raised, value |-> r.value,
      opened |-> opened, model_calls |-> << >> ]

ToolsIdle == repo = Repository(TRUE) /\ last = NoCall

\* tools_by_name["get_diff"].invoke({source_branch, target_branch})
InvokeGetDiff(branches) ==
    \E source_branch \in branches, target_branch \in branches :
      LET g == git_diff(repo, FALSE, target_branch, source_branch)
      IN  /\ last' = Called("get_diff", << source_branch, target_branch >>,
                            get_diff(g.run), {})
          /\ repo' = [ repo EXCEPT !.files = g.files ]

InvokeGetChangedFiles(branches) ==
    \E source_branch \in branches, target_branch \in branches :
      LET g == git_diff(repo, TRUE, target_branch, source_branch)
      IN  /\ last' = Called("get_changed_files",
                            << source_branch, target_branch >>,
                            get_changed_files(g.run), {})
          /\ repo' = [ repo EXCEPT !.files = g.files ]

InvokeGetBranches ==
    LET g == git_branch(repo)
    IN  /\ last' = Called("get_branches", << >>, get_branches(g.run), {})
        /\ repo' = [ repo EXCEPT !.files = g.files ]

InvokeReadFile ==
    /\ \E file_path \in FilePaths :
         LET r == read_file(repo.files, file_path)
         IN  last' = Called("read_file", << file_path >>, r, r.opened)
    /\ repo' = repo

InvokeFindFile ==
    /\ \E filename \in FileNames :
         LET r == find_file(repo.files, filename)
         IN  last' = Called("find_file", << filename >>, r, r.opened)
    /\ repo' = repo

InvokeReview ==
    /\ \E name \in { "quality_review", "security_review" } :
         \E context \in ReviewContexts, oc \in Outcomes(name) :
           last' = [ Called(name, << context >>,
                            tool_invoke(name, context, oc, provider, env), {})
                     EXCEPT !.model_calls =
                       review_model_calls(ReviewPrompt(name), context, oc,
                                          provider, env) ]
    /\ repo' = repo

CallGetDiff == InvokeGetDiff(BranchArgs) /\ UNCHANGED beside_tools
CallGetChangedFiles == InvokeGetChangedFiles(BranchArgs) /\ UNCHANGED beside_tools
CallGetBranches == InvokeGetBranches /\ UNCHANGED beside_tools
CallReadFile == InvokeReadFile /\ UNCHANGED beside_tools
CallFindFile == InvokeFindFile /\ UNCHANGED beside_tools
CallReview == InvokeReview /\ UNCHANGED beside_tools

ToolNext ==
    \/ CallGetDiff
    \/ CallGetChangedFiles
    \/ CallGetBranches
    \/ CallReadFile
    \/ CallFindFile
    \/ CallReview

\* ================================================= get_diff, called again
\* The first get_diff call since the repository last changed is kept; a
\* change of the repository forgets it.
\* The branch names asked about: two branches, a name that is no branch, and
\* a name git reads as an option.
DiffBranches == { "feature", "main", "nope", "--output=pwned" }

NoMemo ==
    [ args |-> << >>, raised |-> FALSE, value |-> << >>, between |-> FALSE ]
MemoIdle == memo = NoMemo

\* get_diff once more, after whatever came before.
DiffAgain ==
    /\ InvokeGetDiff(DiffBranches)
    /\ memo' = IF repo' # repo THEN NoMemo
               ELSE IF memo = NoMemo
               THEN [ NoMemo EXCEPT !.args = last'.args,
                                    !.raised = last'.raised,
                                    !.value = last'.value ]
               ELSE memo
    /\ UNCHANGED << loop_vars, registry_vars, session_vars, graph_vars >>

\* Any of the other six tools in between.
DiffBetween ==
    /\ \/ InvokeGetChangedFiles(DiffBranches)
       \/ InvokeGetBranches
       \/ InvokeReadFile
       \/ InvokeFindFile
       \/ InvokeReview
    /\ memo' = IF repo' # repo \/ memo = NoMemo THEN NoMemo
               ELSE [ memo EXCEPT !.between = TRUE ]
    /\ UNCHANGED << loop_vars, registry_vars, session_vars, graph_vars >>

DiffNext ==
    \/ DiffAgain
    \/ DiffBetween

\* ================================================ the steps of one round
\* graph.stream runs the graph in supersteps, one node each here: "judge",
\* then "tools" when should_continue says so, then "judge" again. The
\* config main() passes holds a thread_id and no recursion_limit, so that
\* each call of graph.stream runs under LangGraph's default limit on the
\* number of supersteps and raises GraphRecursionError when the graph has
\* a node left to run after that many. Nothing in stream_response or main()
\* catches it. Every model call and every tool is taken to return.
recursion_limit == 25

beside_graph ==
    << loop_vars, tool_vars, registry_vars, session_vars, memo_vars >>

GraphIdle ==
    /\ node = "idle"
    /\ steps = 0
    /\ cycles = 0
    /\ wanted = 0
    /\ turn = 0

Running == { "judge", "tools" }

\* A conditional edge that always leads to END.
route_always_end(requests) == "END"

\* The conditional edge after "judge", on the number of tool calls of the
\* message judge_node returned.
route(requests) == IF requests > 0 THEN "tools" ELSE "END"

\* stream_response of a follow-up round: a new call of graph.stream, with
\* its own count of supersteps.
Stream ==
    /\ node = "END"
    /\ turn < MaxRounds
    /\ turn' = turn + 1
    /\ node' = "judge"
    /\ steps' = 0
    /\ cycles' = 0
    /\ wanted' = 0
    /\ UNCHANGED beside_graph

\* One superstep in "judge": the model answers with some number of tool
\* calls and should_continue routes on it.
Reason ==
    /\ node = "judge"
    /\ steps < recursion_limit
    /\ \E requests \in 0..MaxCalls :
         /\ wanted' = requests
         /\ node' = route(requests)
    /\ steps' = steps + 1
    /\ UNCHANGED << cycles, turn, beside_graph >>

\* An Act step that the limit does not count.
Act_uncounted ==
    /\ node = "tools"
    /\ node' = "judge"
    /\ cycles' = cycles + 1
    /\ UNCHANGED << steps, wanted, turn, beside_graph >>

\* One superstep in "tools", and the edge back to "judge": a Reason-to-Act
\* cycle is complete.
Act ==
    /\ node = "tools"
    /\ steps < recursion_limit
    /\ node' = "judge"
    /\ steps' = steps + 1
    /\ cycles' = cycles + 1
    /\ UNCHANGED << wanted, turn, beside_graph >>

\* The limit is reached with a node still to run: graph.stream raises
\* GraphRecursionError and the process ends.
OutOfSteps ==
    /\ node \in Running
    /\ steps >= recursion_limit
    /\ node' = "GraphRecursionError"
    /\ UNCHANGED << steps, cycles, wanted, turn, beside_graph >>

RoundNext ==
    \/ Stream
    \/ Reason
    \/ Act
    \/ OutOfSteps

\* ============================================================ two sessions
\* Two runs of main(), each with the graph it built and the thread_id it
\* drew; a thread holds at most MaxThread messages here.
MaxThread == 4
Sessions == { 1, 2 }

\* A key that names neither the graph's own checkpointer nor a drawn id.
session_key_shared(s) == << "module-level saver", "default" >>

\* Where a session's thread is kept: in the InMemorySaver its own
\* build_graph made, under the thread_id its own main() drew with uuid4.
session_key(s) ==
    << IF s = 1 THEN "InMemorySaver-1" ELSE "InMemorySaver-2",
       IF s = 1 THEN "uuid4-1" ELSE "uuid4-2" >>

SessionKeys == { session_key(s) : s \in Sessions }
Thread(s) == saver[session_key(s)]
Said(s, what) == << what, ToString(s) >>

SessionsIdle ==
    /\ saver = [ k \in SessionKeys |-> << >> ]
    /\ session_pc = [ s \in Sessions |-> "prompt" ]
    /\ seen = [ s \in Sessions |-> << >> ]
    /\ actor = 0

\* stream_response(graph, [HumanMessage(...)], config) of session s.
SessionSubmit(s) ==
    /\ session_pc[s] = "prompt"
    /\ Len(Thread(s)) < MaxThread
    /\ saver' = [ saver EXCEPT ![session_key(s)] =
                    add_messages(@, << HumanMessage(Said(s, "input of ")) >>) ]
    /\ session_pc' = [ session_pc EXCEPT ![s] = "judge" ]
    /\ actor' = s
    /\ UNCHANGED << seen, beside_sessions >>

\* judge_node of session s: the model is given the thread of the config's
\* thread_id and its response is added to that thread.
SessionReason(s) ==
    /\ session_pc[s] = "judge"
    /\ Len(Thread(s)) < MaxThread
    /\ seen' = [ seen EXCEPT ![s] = Thread(s) ]
    /\ \E calls \in { << >>,
                       << ToolCall(NextCallId(Thread(s)), "get_diff", "ctx") >> } :
         /\ saver' = [ saver EXCEPT ![session_key(s)] =
                         add_messages(@, << AIMessage(FreshId(@),
                                               Said(s, "answer of "), calls) >>) ]
         /\ session_pc' = [ session_pc EXCEPT ![s] =
                              IF should_continue(saver'[session_key(s)]) = "tools"
                              THEN "tools" ELSE "prompt" ]
    /\ actor' = s
    /\ UNCHANGED beside_sessions

\* tool_node of session s.
SessionAct(s) ==
    /\ session_pc[s] = "tools"
    /\ Len(Thread(s)) < MaxThread
    /\ saver' = [ saver EXCEPT ![session_key(s)] =
                    add_messages(@,
                      [ k \in 1..Len(PendingCalls(Thread(s))) |->
                          ToolMessage(Said(s, "result of "),
                                      PendingCalls(Thread(s))[k].name,
                                      PendingCalls(Thread(s))[k].id) ]) ]
    /\ session_pc' = [ session_pc EXCEPT ![s] = "judge" ]
    /\ actor' = s
    /\ UNCHANGED << seen, beside_sessions >>

SessionNext ==
    \E s \in Sessions :
      \/ SessionSubmit(s)
      \/ SessionReason(s)
      \/ SessionAct(s)

\* ===================================================== the tool table
\* A tool: its name and the function behind it.
Tool(name, fn) == [ name |-> name, fn |-> fn ]

\* The list create_tools returns.
CreatedTools == [ k \in 1..Len(ToolList) |-> Tool(ToolList[k], ToolList[k]) ]

\* The lists the dictionary construction is applied to: the list
\* create_tools returns, and that list with one more tool, put first or
\* last, whose name is one the list already holds.
ToolLists ==
    { CreatedTools }
    \cup { Append(CreatedTools, Tool(n, "other")) : n \in tools_by_name }
    \cup { << Tool(n, "other") >> \o CreatedTools : n \in tools_by_name }

\* {t.name: t for t in tools}: a later tool of the same name takes the
\* place of an earlier one.
dict_by_name(list) ==
    [ n \in { list[k].name : k \in 1..Len(list) } |->
        LET ks == { k \in 1..Len(list) : list[k].name = n }
        IN  list[CHOOSE k \in ks : \A j \in ks : j <= k].fn ]

Unbuilt == [ built |-> FALSE, by_name |-> << >> ]
NotLooked == "not looked"

RegistryIdle == tools = << >> /\ registry = Unbuilt /\ looked = NotLooked

\* build_graph: tools_by_name = {t.name: t for t in tools}
BuildRegistry ==
    /\ ~registry.built
    /\ registry' = [ built |-> TRUE, by_name |-> dict_by_name(tools) ]
    /\ UNCHANGED << tools, looked, beside_registry >>

\* A lookup that enters a name it does not find.
Lookup_entering ==
    /\ registry.built
    /\ \E name \in RequestNames :
         /\ looked' = IF name \in DOMAIN registry.by_name
                       THEN registry.by_name[name] ELSE "KeyError"
         /\ registry' =
              [ registry EXCEPT !.by_name =
                  [ n \in DOMAIN registry.by_name \cup { name } |->
                      IF n \in DOMAIN registry.by_name
                      THEN registry.by_name[n] ELSE "other" ] ]
    /\ UNCHANGED << tools, beside_registry >>

\* tool_node: tool_func = tools_by_name[name]
Lookup ==
    /\ registry.built
    /\ \E name \in RequestNames \cup tools_by_name :
         looked' = IF name \in DOMAIN registry.by_name
                   THEN registry.by_name[name] ELSE "KeyError"
    /\ UNCHANGED << tools, registry, beside_registry >>

RegistryNext ==
    \/ BuildRegistry
    \/ Lookup

\* main() before build_graph, with one configuration that builds.
LoopIdle == LoopInit /\ provider = NoProvider /\ env = { "OPENAI_API_KEY" }

RegistryInit ==
    /\ LoopIdle
    /\ ToolsIdle
    /\ SessionsIdle
    /\ tools \in ToolLists
    /\ registry = Unbuilt
    /\ looked = NotLooked
    /\ MemoIdle
    /\ GraphIdle

RegistrySpec == RegistryInit /\ [][RegistryNext]_vars

SessionInit ==
    /\ LoopIdle
    /\ ToolsIdle
    /\ RegistryIdle
    /\ SessionsIdle
    /\ MemoIdle
    /\ GraphIdle

SessionSpec == SessionInit /\ [][SessionNext]_vars

DiffInit ==
    /\ LoopIdle
    /\ \E git_found \in BOOLEAN : repo = Repository(git_found)
    /\ last = NoCall
    /\ RegistryIdle
    /\ SessionsIdle
    /\ MemoIdle
    /\ GraphIdle

DiffSpec == DiffInit /\ [][DiffNext]_vars

ToolInit ==
    /\ LoopInit
    /\ \E git_found \in BOOLEAN : repo = Repository(git_found)
    /\ last = NoCall
    /\ RegistryIdle
    /\ SessionsIdle
    /\ MemoIdle
    /\ GraphIdle

ToolSpec == ToolInit /\ [][ToolNext]_vars

\* stream_response of round 1, entered by main() right after build_graph:
\* the graph is at its entry point.
RoundInit ==
    /\ LoopIdle
    /\ ToolsIdle
    /\ RegistryIdle
    /\ SessionsIdle
    /\ MemoIdle
    /\ node = "judge"
    /\ steps = 0
    /\ cycles = 0
    /\ wanted = 0
    /\ turn = 1

RoundSpec == RoundInit /\ [][RoundNext]_vars

\* The model and the tools return and the graph runs the node that is next,
\* so a step of the round that can be taken is taken. Whether the user asks
\* for another round is left open.
FairRoundSpec ==
    /\ RoundSpec
    /\ WF_vars(Reason)
    /\ WF_vars(Act)
    /\ WF_vars(OutOfSteps)

Init ==
    LoopInit /\ ToolsIdle /\ RegistryIdle /\ SessionsIdle /\ MemoIdle /\ GraphIdle

Spec == Init /\ [][Next]_vars

\* ================================================================ claims
\* Indexes of History and of a message's requests.
Idx == 1..Len(history)
CallIdx(k) == 1..Len(history[k].tool_calls)

\* The action-result messages that follow message a without interruption.
BlockOf(a) ==
    { k \in (a + 1)..Len(history) :
        \A i \in (a + 1)..k : history[i].type = "tool" }

\* How many loop turns of tool_node were run for the call with this id.
Occurrences(id) ==
    Cardinality({ i \in 1..Len(dispatched) : dispatched[i].id = id })

\* ---------------------------------------------------------------------
\* C1: a Reason step that appends a coordinator message is followed by Act
\* exactly when that message carries at least one request, and by the end
\* of the round (the prompt) otherwise; a Reason step leaves "judge" in no
\* other way while appending, and an Act step that ends goes back to Reason.
C1_ReasonActTransitions ==
    [][ /\ (pc = "judge" /\ history' # history) =>
              /\ history' = Append(history, LastMessage(history'))
              /\ LastMessage(history').type = "ai"
              /\ pc' \in { "tools", "prompt" }
              /\ pc' = "tools" <=> Len(LastMessage(history').tool_calls) > 0
        /\ (pc = "judge" /\ history' = history) => pc' \in { "judge", "crashed" }
        /\ (pc = "tools" /\ pc' # "tools") => pc' = "judge"
      ]_vars

\* A round that went through Act and back to Reason and then exited.
C1_Witness ==
    /\ pc = "prompt"
    /\ \E k \in Idx : history[k].type = "ai" /\ history[k].tool_calls # << >>

\* ---------------------------------------------------------------------
\* C2: every request of a coordinator message whose Act step is over has
\* had exactly one loop turn; during an Act step the requests already
\* handled have had one and the others none; nothing else is ever executed.
C2_EachRequestExecutedOnce ==
    /\ \A k \in Idx : \A j \in CallIdx(k) :
         Occurrences(history[k].tool_calls[j].id) =
           IF k = Len(history) /\ pc = "tools" /\ j > Len(outputs) THEN 0 ELSE 1
    /\ \A i \in 1..Len(dispatched) :
         \E k \in Idx : \E j \in CallIdx(k) :
           history[k].tool_calls[j].id = dispatched[i].id

\* Two Act steps are over, for two coordinator messages of the thread.
C2_Witness ==
    /\ pc \in { "judge", "prompt" }
    /\ \E k1, k2 \in Idx :
         /\ k1 < k2
         /\ history[k1].tool_calls # << >>
         /\ history[k2].tool_calls # << >>
    /\ Len(dispatched) >= 2

\* ---------------------------------------------------------------------
\* C3: every action-result message stands in the block that follows a
\* coordinator message and carries the id and the name of exactly one of
\* that message's requests; once the Act step is over every request of the
\* message has exactly one action-result in the block; and a report carries
\* the role prompt of the specialist its request names.
C3_ResultsCorrelated ==
    /\ \A k \in Idx :
         history[k].type = "tool" =>
           k > 1 /\ history[k - 1].type \in { "ai", "tool" }
    /\ \A a \in Idx :
         history[a].type = "ai" =>
           /\ \A k \in BlockOf(a) :
                Cardinality({ j \in CallIdx(a) :
                    /\ history[a].tool_calls[j].id = history[k].tool_call_id
                    /\ history[a].tool_calls[j].name = history[k].name }) = 1
           /\ a < Len(history) =>
                \A j \in CallIdx(a) :
                  Cardinality({ k \in BlockOf(a) :
                      history[k].tool_call_id = history[a].tool_calls[j].id }) = 1
    /\ \A k \in Idx :
         (history[k].type = "tool" /\ history[k].content[1] = "report") =>
           history[k].content[2] =
             (IF history[k].name = "quality_review"
              THEN "QUALITY_REVIEWER_SYSTEM_PROMPT"
              ELSE "SECURITY_REVIEWER_SYSTEM_PROMPT")

\* Both specialists requested in one message with the same context, and
\* both reports in History when the next Reason step starts.
C3_Witness ==
    /\ pc = "judge"
    /\ \E a \in Idx :
         /\ Len(history[a].tool_calls) = 2
         /\ history[a].tool_calls[1].name = "quality_review"
         /\ history[a].tool_calls[2].name = "security_review"
         /\ history[a].tool_calls[1].args = history[a].tool_calls[2].args
         /\ a + 2 = Len(history)
         /\ history[a + 1].content[1] = "report"
         /\ history[a + 2].content[1] = "report"

\* ---------------------------------------------------------------------
\* The request with a given id, and the action-result messages built so far
\* (those of History and those tool_node holds in outputs).
RequestOf(id) ==
    CHOOSE c \in UNION { { history[k].tool_calls[j] : j \in CallIdx(k) } :
                         k \in Idx } : c.id = id

Observations ==
    { history[k] : k \in { i \in Idx : history[i].type = "tool" } }
      \cup { outputs[k] : k \in 1..Len(outputs) }

\* The process was ended by an exception that left tool_node.
CrashedInAct ==
    /\ pc = "crashed"
    /\ history # << >>
    /\ LastMessage(history).tool_calls # << >>

Registered ==
    { "get_diff", "get_changed_files", "get_branches", "read_file", "find_file",
      "quality_review", "security_review" }

\* C4: a request whose name is not registered gets an observation made of
\* the error marker and the requested name, and the process is never ended
\* by an exception leaving the Act step on such a request.
C4_UnknownActionObserved ==
    /\ \A i \in 1..Len(dispatched) :
         LET c == RequestOf(dispatched[i].id)
         IN  c.name \notin Registered =>
               /\ ~CrashedInAct
               /\ \E m \in Observations :
                    /\ m.tool_call_id = c.id
                    /\ m.type = "tool"
                    /\ Len(m.content) = 4
                    /\ m.content[1] = "Error executing tool '"
                    /\ m.content[2] = c.name
    /\ \A a \in Idx : \A j \in CallIdx(a) :
         (a < Len(history) /\ history[a].tool_calls[j].name \notin Registered) =>
           \E k \in BlockOf(a) :
             /\ history[k].tool_call_id = history[a].tool_calls[j].id
             /\ history[k].content[1] = "Error executing tool '"
             /\ history[k].content[2] = history[a].tool_calls[j].name

\* The observation of a request for an unregistered name is in History and
\* the next Reason step is about to run.
C4_Witness ==
    /\ pc = "judge"
    /\ \E a \in Idx : \E j \in CallIdx(a) :
         /\ a < Len(history)
         /\ history[a].tool_calls[j].name \notin Registered

\* ---------------------------------------------------------------------
\* C5: whatever the try block of a loop turn raised (a lookup failure, a
\* validation failure, an exception of the body), the turn produced the
\* error text tagged with the tool's name; no exception ends the process
\* from within the Act step; and once the Act step is over every request
\* of the message has been executed and has its observation, whatever the
\* earlier requests raised.
C5_FailuresBecomeObservations ==
    /\ ~CrashedInAct
    /\ \A i \in 1..Len(dispatched) :
         dispatched[i].raised # "none" =>
           \E m \in Observations :
             /\ m.tool_call_id = dispatched[i].id
             /\ m.content = << "Error executing tool '",
                               RequestOf(dispatched[i].id).name, "': ",
                               dispatched[i].raised >>
    /\ \A a \in Idx :
         (history[a].tool_calls # << >> /\ a < Len(history)) =>
           /\ \A j \in CallIdx(a) : Occurrences(history[a].tool_calls[j].id) >= 1
           /\ Cardinality(BlockOf(a)) = Len(history[a].tool_calls)

\* The first request of a message failed its validation, the second one's
\* body raised, and the loop is back at Reason with both observations.
C5_Witness ==
    /\ pc = "judge"
    /\ Len(dispatched) = 2
    /\ dispatched[1].raised = "ValidationError"
    /\ dispatched[2].raised = "FileNotFoundError"
    /\ Len(history) = 4

\* ---------------------------------------------------------------------
\* C6: every step leaves History as it was or extends it at its end; the
\* step that submits a round and every completed Reason step make it
\* longer, so that History is longer at the end of a round than before it.
C6_HistoryAppendOnly ==
    [][ /\ Len(history') >= Len(history)
        /\ SubSeq(history', 1, Len(history)) = history
        /\ (pc \in { "ready", "prompt" } /\ pc' = "judge") =>
              Len(history') = Len(history) + 1
        /\ (pc = "judge" /\ pc' \in { "tools", "prompt" }) =>
              Len(history') = Len(history) + 1
        /\ (pc = "judge" /\ pc' = "prompt") =>
              Len(history') >= round_log.start + 2
      ]_vars

\* A second round that went through an Act step has ended.
C6_Witness ==
    /\ pc = "prompt"
    /\ round_log.start > 0
    /\ round_log.requests > 0

\* ---------------------------------------------------------------------
\* C7: when a Reason step is about to run, and when the round has ended,
\* the round has added to History one user message, one coordinator message
\* per Reason step made and one action-result per request issued, and no
\* other message; a round that ends without any request has added 2.
SpanOf(type) ==
    Cardinality({ k \in (round_log.start + 1)..Len(history) :
                    history[k].type = type })

C7_RoundGrowth ==
    (pc \in { "judge", "prompt", "done" }) =>
      /\ Len(history) - round_log.start
           = 1 + round_log.reasons + round_log.requests
      /\ SpanOf("human") = 1
      /\ SpanOf("ai") = round_log.reasons
      /\ SpanOf("tool") = round_log.requests
      /\ (pc # "judge" /\ round_log.requests = 0) =>
           Len(history) - round_log.start = 2

\* A follow-up round without any request has ended after a first round in
\* which a request was issued.
C7_Witness ==
    /\ pc = "prompt"
    /\ round_log.start = 4
    /\ round_log.requests = 0
    /\ Len(history) = 6

\* ---------------------------------------------------------------------
\* C8: whenever a Reason step is about to run, tool_node holds no pending
\* output and every request of the most recent coordinator message has
\* been executed and has its observation in History after that message.
C8_ReasonAfterAllObservations ==
    pc = "judge" =>
      /\ outputs = << >>
      /\ \A a \in Idx :
           (history[a].type = "ai" /\ \A b \in Idx : history[b].type = "ai" => b <= a) =>
             \A j \in CallIdx(a) :
               /\ Occurrences(history[a].tool_calls[j].id) = 1
               /\ \E k \in Idx :
                    /\ k > a
                    /\ history[k].type = "tool"
                    /\ history[k].tool_call_id = history[a].tool_calls[j].id

\* A Reason step is about to run after an Act step of two requests.
C8_Witness ==
    /\ pc = "judge"
    /\ Len(history) = 4
    /\ Len(history[2].tool_calls) = 2

\* ---------------------------------------------------------------------
\* C9, as the specification states it: a Reason step whose model call fails
\* ends the round, writes the error to the output and hands control back
\* to the prompt.
C9_SessionSurvivesJudgeFailure ==
    [][ (pc = "judge" /\ pc' # "judge" /\ history' = history) =>
          (pc' = "prompt" /\ stdout' # stdout)
      ]_vars

\* ---------------------------------------------------------------------
\* C10: a loop turn for quality_review or security_review with arguments
\* that fit the schema never sees an exception from the tool: its try
\* block raises nothing; a failed model call yields the "Error during ...
\* review" text as the observation, and the process is not ended.
ReviewLabel(name) == IF name = "quality_review" THEN "quality" ELSE "security"

C10_ReviewsNeverRaise ==
    \A i \in 1..Len(dispatched) :
      LET c == RequestOf(dispatched[i].id)
      IN  (c.name \in { "quality_review", "security_review" }
             /\ c.args # "bad_args") =>
            /\ dispatched[i].raised = "none"
            /\ ~CrashedInAct
            /\ \E m \in Observations :
                 /\ m.tool_call_id = c.id
                 /\ m.name = c.name
                 /\ dispatched[i].oc = "APIError" =>
                      m.content = << "Error during ", ReviewLabel(c.name),
                                     " review: ", "APIError" >>
                 /\ dispatched[i].oc = "report" => m.content[1] = "report"

\* A specialist's model call failed and the round went on to its end.
C10_Witness ==
    /\ pc = "prompt"
    /\ \E i \in 1..Len(dispatched) :
         /\ dispatched[i].oc = "APIError"
         /\ RequestOf(dispatched[i].id).name = "security_review"

\* ================================================= claims on the tools
\* The last tool run on its own, its arguments and the canonical path its
\* file argument names.
LastPath == last.args[1]
LastCanonical ==
    realpath(repo.files, os_path_join(real_repo_path, LastPath))

\* A canonical path is in the repository when it is the root or the root
\* followed by further components.
UnderRoot(path) ==
    /\ Len(path) >= Len(real_repo_path)
    /\ SubSeq(path, 1, Len(real_repo_path)) = real_repo_path

\* ---------------------------------------------------------------------
\* C12: a read_file whose path, joined to the root and made canonical, is
\* neither the root nor under it (by "..", by an absolute path, by a link,
\* or by a sibling directory whose name starts with the root's name) returns
\* the outside-the-repository text and opens no file.
C12_EscapingPathRejected ==
    (last.tool = "read_file" /\ ~UnderRoot(LastCanonical)) =>
        /\ ~last.raised
        /\ last.value = << "Error: path '" >> \o ArgStr(LastPath)
                            \o << "' is outside the repository." >>
        /\ last.opened = {}

\* The sibling /work/repo-evil, reached by "..", was asked for and refused.
C12_Witness ==
    /\ last.tool = "read_file"
    /\ LastPath = << "..", "repo-evil", "secret" >>
    /\ LastCanonical = << "work", "repo-evil", "secret" >>
    /\ last.value[Len(last.value)] = "' is outside the repository."

\* ---------------------------------------------------------------------
\* C13: a read_file of a regular file in the repository returns the
\* size-rejection text, and opens nothing, when the file has more than
\* 51200 bytes, and returns the whole decoded content when it has 51200
\* bytes or fewer.
C13_SizeCeiling ==
    (/\ last.tool = "read_file"
     /\ UnderRoot(LastCanonical)
     /\ KindOf(repo.files, LastCanonical) = "file") =>
        LET f == Entry(repo.files, LastCanonical)
        IN  /\ ~last.raised
            /\ f.size > 51200 =>
                  /\ last.value = << "Error: file '" >> \o ArgStr(LastPath)
                        \o << "' is too large (", ToString(f.size),
                              " bytes, max ", "51200", ")." >>
                  /\ last.opened = {}
            /\ f.size <= 51200 =>
                  /\ last.value = decode(f.data)
                  /\ last.opened = { LastCanonical }

\* The file of exactly 51200 bytes was read and returned.
C13_Witness ==
    /\ last.tool = "read_file"
    /\ LastPath = << "exact.bin" >>
    /\ Entry(repo.files, LastCanonical).size = 51200
    /\ last.value = << "0101" >>

\* ---------------------------------------------------------------------
\* C14: no tool changes the repository: whatever tool runs, with whatever
\* arguments and whether it succeeds or fails, the files and the branches
\* are afterwards what they were before.
C14_ToolsLeaveRepositoryAlone ==
    [][repo'.files = repo.files /\ repo'.branches = repo.branches]_vars

\* ---------------------------------------------------------------------
\* C19: find_file(filename) returns, one per line and relative to the root,
\* exactly the entries named filename that are no directories and that lie
\* under the root with no directory of the skip list, and no directory whose
\* name starts with ".", on the way down from the root; when there is none
\* it returns the no-files text.
SkippedName(d) ==
    \/ d \in { ".git", "node_modules", "__pycache__", ".build", ".venv",
               "venv", ".tox", "Pods", "DerivedData" }
    \/ Head(Tok(d)) = "."

Findable(filename) ==
    { e \in repo.files :
        /\ Len(e.path) > Len(real_repo_path)
        /\ UnderRoot(e.path)
        /\ BaseName(e) = filename
        /\ ~IsDirEntry(repo.files, e)
        /\ \A k \in (Len(real_repo_path) + 1)..(Len(e.path) - 1) :
             /\ KindOf(repo.files, SubSeq(e.path, 1, k)) = "dir"
             /\ ~SkippedName(e.path[k]) }

RECURSIVE SplitLines(_)
SplitLines(text) ==
    IF text = << >> THEN {}
    ELSE LET ends == { i \in 1..Len(text) : text[i] = "\n" } \cup { Len(text) + 1 }
             k == CHOOSE i \in ends : \A j \in ends : i <= j
         IN  { SubSeq(text, 1, k - 1) }
             \cup SplitLines(SubSeq(text, k + 1, Len(text)))

C19_FindFileExact ==
    last.tool = "find_file" =>
        LET filename == last.args[1]
            expected == { Join("/", relpath(e.path)) : e \in Findable(filename) }
        IN  /\ ~last.raised
            /\ expected = {} =>
                 last.value = << "No files named '", filename,
                                 "' found in the repository." >>
            /\ expected # {} =>
                 /\ SplitLines(last.value) = expected
                 /\ Cardinality({ i \in 1..Len(last.value) : last.value[i] = "\n" })
                      = Cardinality(expected) - 1

\* AGENTS.md was searched: the one at the root and the one in Sources are
\* returned, the ones in .github and in node_modules/pkg are not.
C19_Witness ==
    /\ last.tool = "find_file"
    /\ last.args = << "AGENTS.md" >>
    /\ SplitLines(last.value)
         = { << "AGENTS.md" >>, << "Sources", "/", "AGENTS.md" >> }
    /\ Known(repo.files, real_repo_path \o << ".github", "AGENTS.md" >>)

\* ---------------------------------------------------------------------
\* C20: for two branches where the source holds no commit the target lacks,
\* get_diff returns "No differences found between branches." and
\* get_changed_files returns "No files changed."; when git exits with an
\* error each returns its error text with git's stderr in it and raises
\* nothing; when git prints something each returns exactly that.
GitAnswer ==
    git_diff(repo, last.tool = "get_changed_files", last.args[2], last.args[1]).run

C20_GitToolResults ==
    (last.tool \in { "get_diff", "get_changed_files" } /\ repo.git) =>
        LET source_branch == last.args[1]
            target_branch == last.args[2]
            is_diff == last.tool = "get_diff"
        IN  /\ ({ source_branch, target_branch } \subseteq BranchSet(repo)
                  /\ repo.commits[source_branch]
                       \subseteq repo.commits[target_branch]) =>
                 /\ ~last.raised
                 /\ last.value =
                      IF is_diff
                      THEN << "No differences found between branches." >>
                      ELSE << "No files changed." >>
            /\ GitAnswer.exc = "CalledProcessError" =>
                 /\ ~last.raised
                 /\ last.value =
                      << IF is_diff THEN "Error getting diff: "
                         ELSE "Error getting changed files: " >>
                      \o GitAnswer.stderr
            /\ (GitAnswer.exc = "none" /\ GitAnswer.stdout # << >>) =>
                 /\ ~last.raised
                 /\ last.value = GitAnswer.stdout

\* git was asked for a branch that does not exist and its error came back
\* as text.
C20_Witness ==
    /\ last.tool = "get_diff"
    /\ last.args = << "nope", "main" >>
    /\ ~last.raised
    /\ last.value[1] = "Error getting diff: "
    /\ Len(last.value) > 1

\* ================================================ claims on the session
\* What stream_response has printed since the round in progress (or just
\* ended) began, and the texts of the Judge's messages from index k on.
RoundOut == SubSeq(stdout, round_log.printed + 1, Len(stdout))

RECURSIVE JudgeTextFrom(_)
JudgeTextFrom(k) ==
    IF k > Len(history) THEN << >>
    ELSE (IF history[k].type = "ai" THEN history[k].content ELSE << >>)
         \o JudgeTextFrom(k + 1)

\* ---------------------------------------------------------------------
\* C11 as claimed: when a round has ended, the fragments printed for it,
\* up to the closing newline, are those of the text of the round's final
\* Judge message (the one without tool calls), in order.
C11_OutputIsFinalText ==
    pc = "prompt" => RoundOut = LastMessage(history).content \o << "\n" >>

\* C11, amended: the fragments printed for a round are, in the order the
\* Judge produced them, the texts of all the Judge messages of the round,
\* those that carry tool calls included; when the round has ended one
\* newline follows them.
C11_OutputIsAllJudgeText ==
    /\ pc \in { "judge", "tools", "crashed" } =>
         RoundOut = JudgeTextFrom(round_log.start + 1)
    /\ pc \in { "prompt", "done" } =>
         RoundOut = JudgeTextFrom(round_log.start + 1) \o << "\n" >>

\* A round has ended whose Judge wrote text next to a tool call and text
\* in its final message: both texts were printed.
C11_Witness ==
    /\ pc = "prompt"
    /\ \E k \in (round_log.start + 1)..(Len(history) - 1) :
         /\ history[k].type = "ai"
         /\ history[k].tool_calls # << >>
         /\ history[k].content = << "The ", "verdict" >>
    /\ LastMessage(history).content = << "The ", "verdict" >>
    /\ RoundOut = << "The ", "verdict", "The ", "verdict", "\n" >>

\* ---------------------------------------------------------------------
\* C16: the session ends in order only from the prompt, and the prompt is
\* reached only after the initial round; at the prompt q, quit, exit or
\* done (in any case, with blanks around), an empty line, end-of-input or
\* a keyboard interrupt end the session and start no round; any other line
\* starts one follow-up round on the same History, with that line (without
\* the blanks around it) as the user's message.
EndsSession(answer) ==
    \/ answer.exc \in { "EOFError", "KeyboardInterrupt" }
    \/ answer.line \in { << "q" >>, << " ", "Quit", " " >>, << "EXIT" >>,
                         << "done" >>, << >>, << " " >> }

TextTyped(answer) ==
    IF answer.line = << " ", "Done", "?", " " >> THEN << "Done", "?" >>
    ELSE answer.line

C16_PromptEndsOrFollowsUp ==
    [][ /\ pc' = "done" => pc \in { "prompt", "done" }
        /\ pc' = "prompt" =>
             /\ Len(history') >= 2
             /\ history'[1].type = "human"
             /\ history'[1].content = << "Please review" >>
             /\ round_num' >= 2
        /\ pc = "prompt" =>
             /\ EndsSession(user_input') =>
                  /\ pc' = "done"
                  /\ history' = history
                  /\ round_num' = round_num
                  /\ stdout' = stdout
             /\ ~EndsSession(user_input') =>
                  /\ pc' = "judge"
                  /\ history' = Append(history, LastMessage(history'))
                  /\ LastMessage(history').type = "human"
                  /\ LastMessage(history').content = TextTyped(user_input')
                  /\ round_log'.start = Len(history)
                  /\ round_log'.reasons = 0
      ]_vars

\* A line with blanks around it and a capital letter in it, which is no
\* quit word, started a follow-up round and is the user's message as typed.
C16_Witness ==
    /\ pc = "judge"
    /\ round_num = 2
    /\ user_input = Typed(<< " ", "Done", "?", " " >>)
    /\ LastMessage(history).type = "human"
    /\ LastMessage(history).content = << "Done", "?" >>

\* ---------------------------------------------------------------------
\* C17: when the configuration names no provider while none of the three
\* keys is set, or names a provider that is not known, or names a provider
\* whose own key is not set (whatever other key is), building the session
\* raises and the session stays without any Reason step, tool execution,
\* History entry or output.
OwnKey(p) ==
    CASE p = "anthropic" -> "ANTHROPIC_API_KEY"
      [] p = "openai" -> "OPENAI_API_KEY"
      [] p \in { "openrouter", "OpenRouter" } -> "OPENROUTER_API_KEY"
      [] OTHER -> "no such key"

ConfigurationError ==
    \/ provider = NoProvider
         /\ env \cap { "ANTHROPIC_API_KEY", "OPENAI_API_KEY",
                       "OPENROUTER_API_KEY" } = {}
    \/ provider # NoProvider /\ OwnKey(provider) \notin env

C17_ConfigurationErrorIsFatal ==
    ConfigurationError =>
        /\ pc \in { "start", "config_error" }
        /\ history = << >>
        /\ dispatched = << >>
        /\ round_log.reasons = 0
        /\ stdout = << >>
        /\ round_num = 1

\* --provider anthropic with only OPENAI_API_KEY set: build_graph raised.
C17_Witness ==
    /\ pc = "config_error"
    /\ provider = "anthropic"
    /\ env = { "OPENAI_API_KEY" }
    /\ history = << >>

\* ================================================ claims on the tool table
DistinctNames(list) ==
    \A i, j \in 1..Len(list) : list[i].name = list[j].name => i = j

C15_SessionsIndependent ==
    [][ \A s \in Sessions :
          /\ Thread(s)' # Thread(s) => actor' = s
          /\ actor' = s => \A t \in Sessions \ { s } : Thread(t)' = Thread(t)
          /\ \A k \in 1..Len(seen'[s]) : seen'[s][k].content[2] = ToString(s)
          /\ \A k \in 1..Len(Thread(s)') : Thread(s)'[k].content[2] = ToString(s)
      ]_vars

\* Both sessions have run their Judge on Histories of their own, and the
\* second one stepped last.
C15_Witness ==
    /\ seen[1] # << >>
    /\ seen[2] # << >>
    /\ Len(Thread(1)) >= 2
    /\ Len(Thread(2)) >= 2
    /\ Thread(1) # Thread(2)
    /\ actor = 2

Specialists == { "quality_review", "security_review" }

\* C26: under a configuration that gives a model, which is the only kind
\* main() makes the tools under, one run of quality_review or
\* security_review makes exactly one model call, on the role's system prompt
\* followed by the context it was given and nothing else, by a model with no
\* tools bound; it changes neither the repository nor the message history
\* nor anything else besides handing back its text.
C26_SpecialistIsOneCall ==
    [][ ( /\ last'.tool \in Specialists
          /\ get_model(provider, env) # "ValueError" )
        => /\ Len(last'.model_calls) = 1
           /\ last'.model_calls[1].messages =
                << [ role |-> "system", content |-> ReviewPrompt(last'.tool) ],
                   [ role |-> "human", content |-> last'.args[1] ] >>
           /\ last'.model_calls[1].bound_tools = {}
           /\ ~last'.raised
           /\ repo' = repo
           /\ history' = history
           /\ UNCHANGED beside_tools ]_vars

\* Both outcomes of a specialist's one call: a report, and a failed call
\* turned into text.
C26_Witness ==
    /\ last.tool = "security_review"
    /\ Len(last.model_calls) = 1
    /\ last.value[1] = "Error during "

C26_WitnessReport ==
    /\ last.tool = "quality_review"
    /\ last.args = << "the diff of feature against main" >>
    /\ last.value = << "report", "QUALITY_REVIEWER_SYSTEM_PROMPT",
                       "the diff of feature against main" >>

\* ================================================== claims on the rounds
\* The names requested so far in the round in progress (or just ended).
RequestedInRound ==
    UNION { { history[k].tool_calls[j].name : j \in CallIdx(k) } :
            k \in (round_log.start + 1)..Len(history) }

\* ------------------------------------------------------------------ C24
\* C24: a Reason step whose message carries no request ends the round,
\* whichever actions the round has and has not run; in particular without
\* quality_review, without security_review and without either of them.
C24_ExitIgnoresWhatWasRun ==
    [][ ( /\ pc = "judge"
          /\ history' # history
          /\ LastMessage(history').tool_calls = << >> )
        => /\ pc' = "prompt"
           /\ round_num' = round_num + 1 ]_vars

\* A round has ended in which an action was run and neither specialist was
\* asked.
C24_Witness ==
    /\ pc = "prompt"
    /\ "get_diff" \in RequestedInRound
    /\ "quality_review" \notin RequestedInRound
    /\ "security_review" \notin RequestedInRound

\* A round has ended with one specialist asked and not the other.
C24_WitnessOneReview ==
    /\ pc = "prompt"
    /\ "quality_review" \in RequestedInRound
    /\ "security_review" \notin RequestedInRound

\* ------------------------------------------------------------------ C25
\* C25: a Reason step invokes the model on the system prompt followed by
\* the whole of History in order, earlier rounds included; when the model
\* answers it appends that one coordinator message and nothing else, never
\* puts a system message into History, and runs no action.
C25_ReasonInputAndFrame ==
    [][ ( pc = "judge" /\ pc' # "judge" )
        => /\ judge_input' =
                << SystemMessage(<< "JUDGE_SYSTEM_PROMPT" >>) >> \o history
           /\ pc' # "crashed" =>
                /\ Len(history') = Len(history) + 1
                /\ SubSeq(history', 1, Len(history)) = history
                /\ LastMessage(history').type = "ai"
           /\ pc' = "crashed" => history' = history
           /\ \A k \in 1..Len(history') : history'[k].type # "system"
           /\ dispatched' = dispatched
           /\ outputs' = << >>
           /\ UNCHANGED aside ]_vars

\* The Reason step of a second round was given the first round, with its
\* request and the action-result, and the second round's user message.
C25_Witness ==
    /\ pc \in { "tools", "prompt" }
    /\ round_log.start >= 4
    /\ Len(judge_input) = Len(history)
    /\ judge_input[2].type = "human"
    /\ judge_input[3].tool_calls # << >>
    /\ judge_input[4].type = "tool"
    /\ judge_input[Len(judge_input)].type = "human"

\* ------------------------------------------------------------------ C27
\* C27: the rounds write to the output nothing but the text of the
\* coordinator messages of Reason steps (and the newline that closes a
\* round): an Act step, whatever its actions gave back, writes nothing.
C27_OnlyJudgeTextIsPrinted ==
    [][ /\ pc = "tools" => stdout' = stdout
        /\ ( pc = "judge" /\ history' # history ) =>
             stdout' = stdout
               \o SelectSeq(LastMessage(history').content, LAMBDA c : c # "")
               \o (IF pc' = "prompt" THEN << "\n" >> ELSE << >>)
        /\ pc \notin { "tools", "judge" } => stdout' = stdout ]_vars

\* An Act step has handed back a specialist's report and a tool's error,
\* and the round has gone on to its end with the Judge's text printed.
C27_Witness ==
    /\ pc = "prompt"
    /\ \E k \in Idx : history[k].type = "tool" /\ history[k].content[1] = "report"
    /\ \E k \in Idx :
         history[k].type = "tool" /\ history[k].content[1] = "Error executing tool '"
    /\ stdout = << "The ", "verdict", "\n" >>

\* ------------------------------------------------------------------ C28
\* C28: whenever the user has control between rounds and History is not
\* empty, its last message is a coordinator message without requests; every
\* coordinator message with requests is followed at once by the
\* action-results of its requests, one each and in their order, and by no
\* further one; and History begins with a user message, every later user
\* message follows a coordinator message without requests, and every such
\* coordinator message but the last is followed by a user message, so that
\* each round's span begins with exactly one user message.
C28_HistoryShapeAtPrompt ==
    ( pc \in { "prompt", "done" } /\ history # << >> ) =>
      /\ LastMessage(history).type = "ai"
      /\ LastMessage(history).tool_calls = << >>
      /\ \A a \in Idx :
           ( history[a].type = "ai" /\ history[a].tool_calls # << >> ) =>
             LET n == Len(history[a].tool_calls)
             IN  /\ a + n < Len(history)
                 /\ \A j \in 1..n :
                      /\ history[a + j].type = "tool"
                      /\ history[a + j].tool_call_id = history[a].tool_calls[j].id
                 /\ history[a + n + 1].type = "ai"
      /\ history[1].type = "human"
      /\ \A k \in Idx :
           /\ ( history[k].type = "human" /\ k > 1 ) =>
                /\ history[k - 1].type = "ai"
                /\ history[k - 1].tool_calls = << >>
           /\ ( history[k].type = "ai" /\ history[k].tool_calls = << >>
                  /\ k < Len(history) ) =>
                history[k + 1].type = "human"
           /\ history[k].type = "human" =>
                k < Len(history) /\ history[k + 1].type = "ai"

\* The user has control after two rounds, the first of which went through
\* an Act step.
C28_Witness ==
    /\ pc = "prompt"
    /\ Len(history) = 6
    /\ Len(history[2].tool_calls) = 1
    /\ history[3].type = "tool"
    /\ history[5].type = "human"

\* ------------------------------------------------------------------ C29
\* C29: an Act step runs the requests of the coordinator message one at a
\* time, in the order the message lists them, keeping each result aside and
\* leaving History alone; it returns only when every request has been run,
\* and then appends all the results to History at once, in that same order.
C29_ActInOrderThenAppend ==
    [][ /\ ( pc = "tools" /\ dispatched' # dispatched ) =>
             LET tool_call == PendingCalls(history)[Len(outputs) + 1]
             IN  /\ Len(dispatched') = Len(dispatched) + 1
                 /\ SubSeq(dispatched', 1, Len(dispatched)) = dispatched
                 /\ dispatched'[Len(dispatched')].id = tool_call.id
                 /\ history' = history
                 /\ pc' = "tools" =>
                      /\ Len(outputs') = Len(outputs) + 1
                      /\ SubSeq(outputs', 1, Len(outputs)) = outputs
                      /\ outputs'[Len(outputs')].tool_call_id = tool_call.id
        /\ ( pc = "tools" /\ pc' = "judge" ) =>
             /\ dispatched' = dispatched
             /\ Len(outputs) = Len(PendingCalls(history))
             /\ Len(history') = Len(history) + Len(outputs)
             /\ SubSeq(history', 1, Len(history)) = history
             /\ \A j \in 1..Len(outputs) :
                  /\ history'[Len(history) + j].tool_call_id =
                       PendingCalls(history)[j].id
                  /\ history'[Len(history) + j].name = PendingCalls(history)[j].name
                  /\ history'[Len(history) + j].content = outputs[j].content
      ]_vars

\* An Act step of two different requests is over: both were run, in the
\* order of the message, and their results stand in History in that order.
C29_Witness ==
    /\ pc = "judge"
    /\ Len(history) = 4
    /\ Len(history[2].tool_calls) = 2
    /\ history[2].tool_calls[1].name = "security_review"
    /\ history[2].tool_calls[2].name = "get_diff"
    /\ history[3].name = "security_review"
    /\ history[4].name = "get_diff"
    /\ Len(dispatched) = 2
    /\ dispatched[1].id = history[2].tool_calls[1].id
    /\ dispatched[2].id = history[2].tool_calls[2].id

====
